---- MODULE Spec2Model ----
(***************************************************************************)
(* The streaming chat session runtime of src/src/ChatApp.tsx               *)
(* (useChatRuntime): thread selection and hydration, sendMessageStream     *)
(* with its stream timers and batched flushes, abortInFlight, and the      *)
(* reconciliation poller pollForFinalAssistant.                            *)
(*                                                                         *)
(* One action is one run of the event loop: a user event handler, or the   *)
(* continuation of an async function from one await to the next.  React    *)
(* state updates (setHistory(h => ...)) are applied in the order they are  *)
(* queued, so they are modelled as immediate assignments; the effect       *)
(* "hydrate on thread change" (lines 945-948) is run in the step that      *)
(* changes threadId.                                                       *)
(*                                                                         *)
(* fetch, the response body reader and the backend are collaborators       *)
(* outside the repository.  What they hand back at an await is an input:   *)
(* a response, a chunk, end of stream, a failure, or (once the controller  *)
(* is aborted) an AbortError.                                              *)
(*                                                                         *)
(* Spec is the runtime with fetch as a browser implements it: once the     *)
(* controller is aborted, a pending fetch or read rejects with an          *)
(* AbortError and delivers nothing else.  Every change of the active       *)
(* thread aborts the controller in the slot first, so under Spec no chunk  *)
(* and no end of stream reaches a send after a thread switch.  The code    *)
(* provides for exactly that with its stale checks at lines 809 and 842;   *)
(* SpecLate adds it: a reader that still hands over a chunk or the end of  *)
(* the stream after the controller was aborted (LateChunk, LateDone).      *)
(***************************************************************************)
EXTENDS Naturals, Sequences, FiniteSets

\* ------------------------------------------------------------ bounds
MaxSends == 2
\* chunks (reads that return a value) over all streams
MaxChunks == 1
\* getThread requests of hydrateThread outstanding at once
MaxHyds == 2
\* further rounds of the poll loop after the first before the deadline
MaxPolls == 1

\* ------------------------------------------------------ program constants
\* pending.length >= 2048 flushes at once (line 833)
FlushThreshold == 2048

\* no thread selected (useState<string | null>(null), useRef(null))
Null == "null"
\* inFlightAbortRef.current === null; a controller is named by its send, 1, 2, ...
NoCtrl == 0
Threads == {"A", "B"}
SendIds == 1 .. MaxSends

\* ------------------------------------------------------------ texts
\* A message text is a record: k says which text it is, v holds the tokens
\* of streamed or backend content.  Tokens: "x" visible text, "w" white
\* space, "b" the text "[browsing...]", "X" a block of 2048 visible
\* characters.
Tokens == {"x", "w", "b", "X"}
Thinking == [k |-> "thinking", v |-> <<>>]
Stopped == [k |-> "stopped", v |-> <<>>]
NoContent == [k |-> "nocontent", v |-> <<>>]
ConfigError == [k |-> "config", v |-> <<>>]
UserText == [k |-> "user", v |-> <<>>]
Txt(v) == [k |-> "text", v |-> v]
ErrorText(reason) == [k |-> "error", v |-> <<reason>>]

TokLen(t) == IF t = "X" THEN FlushThreshold ELSE 1

RECURSIVE TLen(_)
TLen(s) == IF s = <<>> THEN 0 ELSE TokLen(Head(s)) + TLen(Tail(s))

RECURSIVE TrimLeft(_)
TrimLeft(s) == IF s # <<>> /\ Head(s) = "w" THEN TrimLeft(Tail(s)) ELSE s

RECURSIVE TrimRight(_)
TrimRight(s) ==
  IF s # <<>> /\ s[Len(s)] = "w" THEN TrimRight(SubSeq(s, 1, Len(s) - 1)) ELSE s

\* String.prototype.trim
Trim(s) == TrimRight(TrimLeft(s))

\* t = s.trim().toLowerCase(); t === "[browsing...]" || t.startsWith("[browsing")
looksLikeBrowsingPlaceholder(s) ==
  LET t == Trim(s) IN t # <<>> /\ Head(t) = "b"

\* ------------------------------------------------------------ messages
UserTs == 1
UserId(s) == [k |-> "u", n |-> s]
AssistantId(s) == [k |-> "a", n |-> s]
BackendId(n) == [k |-> "b", n |-> n]
Msg(id, ts, role, text) == [id |-> id, ts |-> ts, role |-> role, text |-> text]

\* what getThread may return to hydrateThread
BackendHistories ==
  { << Msg(BackendId(1), 0, "user", UserText),
       Msg(BackendId(2), 0, "assistant", Txt(<<"x">>)) >> }

\* what getThread may return to the poller
PollResponses ==
  { <<>>,
    << Msg(BackendId(2), 0, "assistant", Txt(<<"x">>)) >>,
    << Msg(BackendId(3), 2, "assistant", Txt(<<"b">>)) >>,
    << Msg(BackendId(3), 2, "assistant", Thinking) >>,
    << Msg(BackendId(2), 0, "assistant", Txt(<<"x">>)),
       Msg(BackendId(3), 2, "assistant", Txt(<<"x", "x">>)),
       Msg(BackendId(4), 2, "user", UserText) >>,
    << Msg(BackendId(3), 2, "assistant", Txt(<<"x">>)),
       Msg(BackendId(5), 1, "assistant", Txt(<<"b">>)) >>,
    << Msg(BackendId(3), 2, "assistant", Txt(<<"b">>)),
       Msg(BackendId(5), 2, "assistant", Txt(<<"x">>)) >>,
    << Msg(BackendId(3), 2, "assistant", Txt(<<>>)) >> }

HasMsg(h, id) == \E i \in DOMAIN h : h[i].id = id
TextOf(h, id) == h[CHOOSE i \in DOMAIN h : h[i].id = id].text

\* ------------------------------------------------------------ the decoder
\* createHybridStreamDecoder (lines 252-334).  A byte is one of: "{" 0x7b;
\* "}" and "a" other ASCII bytes; "w" a white-space byte (0x20, 0x09, 0x0a,
\* 0x0d); "0" a zero byte; "L" and "C" the lead and the continuation byte
\* of a two-byte UTF-8 character; "K" a run of MAX_META_BYTES - 1 bytes "a".
\* A character of decoded text is "{", "}", "a", "w", "0" (U+0000), "e" (the
\* two-byte character), "?" (U+FFFD) or "K" (the run, decoded).

\* DELIM = new Uint8Array(8) (line 253)
DelimLen == 8
\* MAX_META_BYTES = 32 * 1024 (line 277)
MaxMetaBytes == 32768

Bytes == {"{", "}", "a", "w", "0", "L", "C", "K"}
DELIM == [i \in 1 .. DelimLen |-> "0"]

\* Uint8Array.length
RECURSIVE ByteLen(_)
ByteLen(u8) ==
  IF u8 = <<>> THEN 0
  ELSE (IF Head(u8) = "K" THEN MaxMetaBytes - 1 ELSE 1) + ByteLen(Tail(u8))

\* TextDecoder.decode(u8, {stream: true}) of a UTF-8 decoder that holds a
\* lead byte (pend) from the call before: the text, and whether it holds one
\* now.  A byte that cannot continue or start a character decodes to U+FFFD.
RECURSIVE DecodeStream(_, _)
DecodeStream(u8, pend) ==
  IF u8 = <<>> THEN [text |-> <<>>, pend |-> pend]
  ELSE LET b == Head(u8) IN
       IF pend
       THEN IF b = "C"
            THEN LET r == DecodeStream(Tail(u8), FALSE)
                 IN [text |-> << "e" >> \o r.text, pend |-> r.pend]
            ELSE LET r == DecodeStream(u8, FALSE)
                 IN [text |-> << "?" >> \o r.text, pend |-> r.pend]
       ELSE IF b = "L" THEN DecodeStream(Tail(u8), TRUE)
       ELSE LET r == DecodeStream(Tail(u8), FALSE)
            IN [text |-> << (IF b = "C" THEN "?" ELSE b) >> \o r.text, pend |-> r.pend]

\* TextDecoder.decode(u8): the end of the input is the end of the text
DecodeAll(u8) ==
  LET r == DecodeStream(u8, FALSE) IN IF r.pend THEN r.text \o << "?" >> ELSE r.text

\* TextEncoder: the UTF-8 bytes of a text without U+FFFD
RECURSIVE UTF8(_)
UTF8(text) ==
  IF text = <<>> THEN <<>>
  ELSE (IF Head(text) = "e" THEN << "L", "C" >> ELSE << Head(text) >>) \o UTF8(Tail(text))

\* the metadata objects, and JSON.stringify and JSON.parse on them
JsonObjects == {"empty", "letter", "accent"}
Undefined == "undefined"
JSON(m) ==
  CASE m = "empty" -> << "{", "}" >>
    [] m = "letter" -> << "{", "a", "}" >>
    [] m = "accent" -> << "{", "e", "}" >>

RECURSIVE TrimWs(_)
TrimWs(text) ==
  IF text # <<>> /\ Head(text) = "w" THEN TrimWs(Tail(text))
  ELSE IF text # <<>> /\ text[Len(text)] = "w" THEN TrimWs(SubSeq(text, 1, Len(text) - 1))
  ELSE text

JSONparse_Lenient(text) ==
  IF \E m \in JsonObjects : JSON(m) = TrimWs(text)
  THEN CHOOSE m \in JsonObjects : JSON(m) = TrimWs(text)
  ELSE "empty"

\* JSON.parse inside try/catch (lines 313-319): Undefined when it throws
JSONparse(text) ==
  IF \E m \in JsonObjects : JSON(m) = TrimWs(text)
  THEN CHOOSE m \in JsonObjects : JSON(m) = TrimWs(text)
  ELSE Undefined

\* firstNonWhitespaceByte (lines 279-286); Null when there is none
RECURSIVE firstNonWhitespaceByte(_)
firstNonWhitespaceByte(u8) ==
  IF u8 = <<>> THEN Null
  ELSE IF Head(u8) = "w" THEN firstNonWhitespaceByte(Tail(u8))
  ELSE Head(u8)

\* indexOfSubarray (lines 267-275), 1-based; 0 for -1
indexOfSubarray(hay, needle) ==
  LET hits == { i \in 1 .. Len(hay) :
                  /\ i + Len(needle) - 1 <= Len(hay)
                  /\ SubSeq(hay, i, i + Len(needle) - 1) = needle }
  IN IF hits = {} THEN 0 ELSE CHOOSE i \in hits : \A j \in hits : i <= j

OverCap_Never(buf) == FALSE

\* buf.length > MAX_META_BYTES (line 303)
OverCap(buf) == ByteLen(buf) > MaxMetaBytes

\* the closure of a fresh decoder (lines 256-258, 254)
FreshDecoder ==
  [ startedBody |-> FALSE, decidedPlainText |-> FALSE, buf |-> <<>>, pend |-> FALSE ]

Passthrough_Restart(d, pend) ==
  [d EXCEPT !.startedBody = FALSE, !.decidedPlainText = FALSE, !.buf = <<>>, !.pend = pend]

\* the closure after the passthrough decode (lines 329-330): buf is emptied,
\* the flags stay
Passthrough(d, pend) == [d EXCEPT !.buf = <<>>, !.pend = pend]

\* push (lines 289-332): the decoder after it, the text and the meta returned
push(d, bytes) ==
  IF bytes = <<>> THEN [d |-> d, text |-> <<>>, meta |-> Undefined]
  ELSE
    LET buf == d.buf \o bytes
        b == firstNonWhitespaceByte(buf)
        plain == ~d.startedBody /\ ~d.decidedPlainText /\ b # Null /\ b # "{"
        d1 == IF plain
              THEN [d EXCEPT !.decidedPlainText = TRUE, !.startedBody = TRUE]
              ELSE d
        at == indexOfSubarray(buf, DELIM)
    IN IF ~d1.startedBody
       THEN IF OverCap(buf)
            THEN LET r == DecodeStream(buf, d1.pend)
                 IN [d |-> [d1 EXCEPT !.startedBody = TRUE, !.buf = <<>>, !.pend = r.pend],
                     text |-> r.text, meta |-> Undefined]
            ELSE IF at = 0
            THEN [d |-> [d1 EXCEPT !.buf = buf], text |-> <<>>, meta |-> Undefined]
            ELSE LET metaStr == DecodeAll(SubSeq(buf, 1, at - 1))
                     bodyBytes == SubSeq(buf, at + DelimLen, Len(buf))
                     r == DecodeStream(bodyBytes, FALSE)
                 IN [d |-> [d1 EXCEPT !.startedBody = TRUE, !.buf = <<>>, !.pend = r.pend],
                     text |-> r.text, meta |-> JSONparse(metaStr)]
       ELSE LET r == DecodeStream(buf, d1.pend)
            IN [d |-> Passthrough(d1, r.pend), text |-> r.text, meta |-> Undefined]

\* ------------------------------------------------------ decoder inputs
\* characters of a body text, bytes of an unframed stream
MaxBodyLen == 2
MaxRawLen == 2
MaxPostLen == 2

BodyChars == {"a", "w", "e", "0", "{", "K"}

SeqsUpTo(S, n) == UNION { [1 .. k -> S] : k \in 0 .. n }

\* JSON(M) + 8 zero bytes + UTF8(B)
FramedInputs ==
  { [ kind |-> "framed", m |-> m, body |-> body,
      stream |-> UTF8(JSON(m)) \o DELIM \o UTF8(body) ] :
      m \in JsonObjects, body \in SeqsUpTo(BodyChars, MaxBodyLen) }

\* any bytes, with or without 8 zero bytes among them
RawInputs ==
  { [ kind |-> "raw", m |-> Undefined, body |-> <<>>, stream |-> pre \o mid \o post ] :
      pre \in SeqsUpTo(Bytes, MaxRawLen), mid \in {<<>>, DELIM},
      post \in SeqsUpTo(Bytes, MaxPostLen) }

\* a fresh decoder before input.stream: rest is what the reader has not
\* handed over yet, out the concatenation of the texts push returned, metas
\* the metadata push returned
Feed(input) ==
  [ input |-> input, rest |-> input.stream, d |-> FreshDecoder, out |-> <<>>, metas |-> <<>> ]

IdleDecoder == Feed([kind |-> "none", m |-> Undefined, body |-> <<>>, stream |-> <<>>])

\* ------------------------------------------------------------ state
VARIABLES
  threadId,          \* useState threadId
  activeThreadRef,   \* activeThreadRef.current
  inFlightAbortRef,  \* inFlightAbortRef.current: the send whose controller it holds
  isStreaming,       \* useState isStreaming
  history,           \* useState history
  hydrating,         \* useState hydrating
  hydrateError,      \* useState hydrateError
  streamApiBase,     \* whether VITE_STREAM_API_BASE is configured
  hydrations,        \* per thread, the getThread requests of hydrateThread outstanding
  nSends,            \* calls of onSend so far
  nChunks,           \* chunks read so far, over all streams
  sends,             \* per call of sendMessageStream, its locals and position
  decoder            \* a decoder of createHybridStreamDecoder with the stream fed to it

vars ==
  << threadId, activeThreadRef, inFlightAbortRef, isStreaming, history, hydrating,
     hydrateError, streamApiBase, hydrations, nSends, nChunks, sends, decoder >>

\* The locals of one call of sendMessageStream.  pc is the await it is
\* suspended at: "fetch" (line 765), "errbody" (line 774), "read" (line 806),
\* "poll_fetch" (line 714), "poll_sleep" (line 742); "idle" before the call
\* and "done" after its finally block.  result is how the promise of the
\* call settled: "returned" or "thrown".  stale, stopped, refreshed and
\* polled record whether the active thread has been another thread since
\* the call started, whether stop() aborted it, whether it called
\* refreshThreads, and whether it awaited pollForFinalAssistant; arrived is
\* the text decoder.push has returned to it so far, chunk after chunk, and
\* flushTimeouts the number of flush callbacks that window.setTimeout holds.
IdleSend ==
  [ pc |-> "idle", tid |-> Null, aborted |-> FALSE,
    firstByteTimer |-> FALSE, progressTimer |-> FALSE, flushTimer |-> FALSE,
    acc |-> <<>>, pending |-> <<>>, gotAnyByte |-> FALSE, sawAnyText |-> FALSE,
    lastSeen |-> Txt(<<>>), polls |-> 0,
    result |-> "none", stale |-> FALSE, stopped |-> FALSE, refreshed |-> FALSE,
    polled |-> FALSE, arrived |-> <<>>, flushTimeouts |-> 0 ]

Started(s) == sends[s].pc # "idle"
Live(s) == sends[s].pc \notin {"idle", "done"}

Init ==
  /\ threadId = Null
  /\ activeThreadRef = Null
  /\ inFlightAbortRef = NoCtrl
  /\ isStreaming = FALSE
  /\ history = <<>>
  /\ hydrating = FALSE
  /\ hydrateError = FALSE
  /\ streamApiBase \in BOOLEAN
  /\ hydrations = [t \in Threads |-> 0]
  /\ nSends = 0
  /\ nChunks = 0
  /\ sends = [s \in SendIds |-> IdleSend]
  /\ decoder = IdleDecoder

\* ------------------------------------------------------------ transcript
Append_Front(h, m) == << m >> \o h

\* setHistory(h => [...h, m])
Append_(h, m) == h \o << m >>

\* updateAssistantText: h.map(m => m.id === assistantId ? {...m, text} : m)
UpdateText(h, id, text) ==
  [i \in DOMAIN h |-> IF h[i].id = id THEN [h[i] EXCEPT !.text = text] ELSE h[i]]

\* the index abortInFlight's loop stops at: the last assistant entry, 0 if none
LastAssistant(h) ==
  IF \E i \in DOMAIN h : h[i].role = "assistant"
  THEN CHOOSE i \in DOMAIN h :
         /\ h[i].role = "assistant"
         /\ \A j \in DOMAIN h : h[j].role = "assistant" => j <= i
  ELSE 0

\* ------------------------------------------------------------ abortInFlight
AbortController_NoAbort(sd, c) == sd

\* ctrl.abort(), and controller.abort() of the timers' callback
AbortController(sd, c) == [sd EXCEPT ![c].aborted = TRUE]

AbortHistory_Always(h, ctrl) ==
  IF LastAssistant(h) = 0 THEN h ELSE [h EXCEPT ![LastAssistant(h)].text = Stopped]

\* abortInFlight's effect on history: nothing without a controller, else
\* the last assistant entry's text becomes the stopped indicator
AbortHistory(h, ctrl) ==
  IF ctrl = NoCtrl \/ LastAssistant(h) = 0
  THEN h
  ELSE [h EXCEPT ![LastAssistant(h)].text = Stopped]

\* abortInFlight's effect on the controllers
AbortSends(sd, ctrl) == IF ctrl = NoCtrl THEN sd ELSE AbortController(sd, ctrl)

\* abortInFlight's effect on isStreaming
AbortStreaming(b, ctrl) == IF ctrl = NoCtrl THEN b ELSE FALSE

\* the active thread becomes t: every send made for another thread is stale
MarkStale(sd, t) ==
  [s \in SendIds |->
     IF sd[s].pc # "idle" /\ sd[s].tid # t THEN [sd[s] EXCEPT !.stale = TRUE] ELSE sd[s]]

HydTotal == hydrations["A"] + hydrations["B"]

\* hydrateThread(tid) up to its await (lines 646-656), run by the effect of
\* lines 945-948 when threadId has become tid.  Its own abortInFlight finds
\* the slot as the caller's abortInFlight left it: empty.
HydrateStart(tid) ==
  /\ activeThreadRef' = tid
  /\ hydrating' = TRUE
  /\ hydrateError' = FALSE
  /\ hydrations' = [hydrations EXCEPT ![tid] = @ + 1]

\* abortInFlight() as the first call of a handler that goes on to change
\* the thread; the send's stale mark follows the new active thread
AbortForThread(tid) ==
  /\ history' = AbortHistory(history, inFlightAbortRef)
  /\ sends' = MarkStale(AbortSends(sends, inFlightAbortRef), tid)
  /\ isStreaming' = AbortStreaming(isStreaming, inFlightAbortRef)
  /\ inFlightAbortRef' = NoCtrl

\* initial load (lines 912-942): the first listed thread is selected
SelectInitial ==
  /\ threadId = Null
  /\ HydTotal < MaxHyds
  /\ AbortForThread("A")
  /\ threadId' = "A"
  /\ HydrateStart("A")
  /\ UNCHANGED << streamApiBase, decoder, nSends, nChunks >>

\* a thread button's onClick (lines 1069-1072): abortInFlight();
\* setThreadId(t).  Clicking the selected thread changes no state but what
\* abortInFlight changes.
SwitchThread(t) ==
  /\ threadId # Null
  /\ IF t = threadId
     THEN /\ AbortForThread(activeThreadRef)
          /\ UNCHANGED << threadId, activeThreadRef, hydrating, hydrateError, hydrations >>
     ELSE /\ HydTotal < MaxHyds
          /\ AbortForThread(t)
          /\ threadId' = t
          /\ HydrateStart(t)
  /\ UNCHANGED << streamApiBase, decoder, nSends, nChunks >>

\* createNewThread after createThread has answered (lines 636-642): the new
\* thread is not the selected one
CreateNewThread(t) ==
  /\ t # threadId
  /\ HydTotal < MaxHyds
  /\ AbortForThread(t)
  /\ threadId' = t
  /\ HydrateStart(t)
  /\ UNCHANGED << streamApiBase, decoder, nSends, nChunks >>

StillActive_Always(active, t) == TRUE

\* the test activeThreadRef.current === tid after the await (lines 657,
\* 661, 665)
StillActive(active, t) == active = t

\* hydrateThread after getThread has answered (lines 657-659, 664-666)
HydrateOk(t, msgs) ==
  /\ hydrations[t] > 0
  /\ hydrations' = [hydrations EXCEPT ![t] = @ - 1]
  /\ IF StillActive(activeThreadRef, t)
     THEN /\ history' = msgs
          /\ hydrating' = FALSE
     ELSE UNCHANGED << history, hydrating >>
  /\ UNCHANGED << threadId, activeThreadRef, inFlightAbortRef, isStreaming,
                  hydrateError, streamApiBase, decoder, nSends, nChunks, sends >>

\* hydrateThread after getThread has failed (lines 660-666)
HydrateFail(t) ==
  /\ hydrations[t] > 0
  /\ hydrations' = [hydrations EXCEPT ![t] = @ - 1]
  /\ IF StillActive(activeThreadRef, t)
     THEN /\ hydrateError' = TRUE
          /\ history' = <<>>
          /\ hydrating' = FALSE
     ELSE UNCHANGED << history, hydrating, hydrateError >>
  /\ UNCHANGED << threadId, activeThreadRef, inFlightAbortRef, isStreaming,
                  streamApiBase, decoder, nSends, nChunks, sends >>

\* stop(): the Stop button's onStop={abortInFlight} (lines 539-540, 1170),
\* enabled while canStop (line 949)
Stop ==
  /\ isStreaming \/ inFlightAbortRef # NoCtrl
  /\ history' = AbortHistory(history, inFlightAbortRef)
  /\ sends' =
       IF inFlightAbortRef = NoCtrl
       THEN sends
       ELSE [AbortSends(sends, inFlightAbortRef) EXCEPT ![inFlightAbortRef].stopped = TRUE]
  /\ isStreaming' = AbortStreaming(isStreaming, inFlightAbortRef)
  /\ inFlightAbortRef' = NoCtrl
  /\ UNCHANGED << threadId, activeThreadRef, hydrating, hydrateError, streamApiBase, decoder,
                  hydrations, nSends, nChunks >>

\* ------------------------------------------------------------ stream timers
\* createStreamTimers: a timer is TRUE while its timeout is scheduled
ArmFirstByte(r) == [r EXCEPT !.firstByteTimer = TRUE]

DisarmFirstByte_Keep(r) == r

DisarmFirstByte(r) == [r EXCEPT !.firstByteTimer = FALSE]

ArmProgress(r) == [r EXCEPT !.progressTimer = TRUE]

ClearTimers_KeepProgress(r) == [r EXCEPT !.firstByteTimer = FALSE]

\* timers.clear() (lines 222-227)
ClearTimers(r) == [r EXCEPT !.firstByteTimer = FALSE, !.progressTimer = FALSE]

\* ------------------------------------------------------------ flush
FlushLocals_Prepend(r) ==
  IF r.pending = <<>> THEN r ELSE [r EXCEPT !.acc = r.pending \o r.acc, !.pending = <<>>]

\* flush (lines 788-793), its effect on the locals acc and pending
FlushLocals(r) ==
  IF r.pending = <<>> THEN r ELSE [r EXCEPT !.acc = r.acc \o r.pending, !.pending = <<>>]

FlushHistory_Always(h, r, id) == UpdateText(h, id, Txt(r.acc \o r.pending))

\* flush, its effect on history: updateAssistantText(assistantId, acc)
FlushHistory(h, r, id) ==
  IF r.pending = <<>> THEN h ELSE UpdateText(h, id, Txt(r.acc \o r.pending))

ScheduleFlush_Unguarded(r) ==
  [r EXCEPT !.flushTimer = TRUE, !.flushTimeouts = @ + 1]

\* scheduleFlush (lines 795-801): nothing while a timeout is set
ScheduleFlush(r) ==
  IF r.flushTimer THEN r ELSE [r EXCEPT !.flushTimer = TRUE, !.flushTimeouts = @ + 1]

\* the flush timeout has run (line 798) or was cleared (line 838)
FlushTimerGone(r) ==
  [r EXCEPT !.flushTimer = FALSE, !.flushTimeouts = IF @ > 0 THEN @ - 1 ELSE 0]

ClearOwn_Always(ref, s) == NoCtrl

\* finally (line 871): the slot is cleared if it still holds this send's controller
ClearOwn(ref, s) == IF ref = s THEN NoCtrl ELSE ref

isAbortError(e) == e = "AbortError"

CatchShowsError_Always(e, active, tid) == TRUE

\* catch (line 865): the error is shown and thrown again unless it is an
\* AbortError or the thread is no longer the active one
CatchShowsError(e, active, tid) == ~(isAbortError(e) \/ active # tid)

\* The locals acc, pending, gotAnyByte, sawAnyText and lastSeen of a call
\* that has returned are reachable only from the callback of a flush timer
\* that is still scheduled; without one they are gone.
Collect(r) ==
  IF r.pc = "done" /\ ~r.flushTimer
  THEN [r EXCEPT !.acc = <<>>, !.pending = <<>>, !.gotAnyByte = FALSE,
                 !.sawAnyText = FALSE, !.lastSeen = Txt(<<>>), !.polls = 0,
                 !.arrived = <<>>]
  ELSE r

\* the locals after the finally block (timers.clear(), lines 869)
Finished(r, result) ==
  Collect([ClearTimers(r) EXCEPT !.pc = "done", !.result = result])

\* finally (lines 868-872), its effect on the shared state
Finally(s) ==
  /\ isStreaming' = FALSE
  /\ inFlightAbortRef' = ClearOwn(inFlightAbortRef, s)

\* catch and finally (lines 863-872) for error e
Catch(s, e) ==
  /\ IF CatchShowsError(e, activeThreadRef, sends[s].tid)
     THEN /\ history' = UpdateText(history, AssistantId(s), ErrorText(e))
          /\ sends' = [sends EXCEPT ![s] = Finished(@, "thrown")]
     ELSE /\ history' = history
          /\ sends' = [sends EXCEPT ![s] = Finished(@, "returned")]
  /\ Finally(s)
  /\ UNCHANGED << threadId, activeThreadRef, hydrating, hydrateError, streamApiBase, decoder,
                  hydrations, nSends, nChunks >>

\* the error an await of fetch or read throws: an AbortError once the
\* controller is aborted, a network failure before
Rejections(s) == IF sends[s].aborted THEN {"AbortError"} ELSE {"TypeError"}

\* ------------------------------------------------------------ onSend
\* onSend (lines 887-909) and sendMessageStream up to its first await
\* (lines 750-765).  The composer is disabled while hydrating or without a
\* thread (line 1166).
StreamConfigured_Always(base) == TRUE

\* the test `if (!streamApiBase)` of onSend (line 893)
StreamConfigured(base) == base

OnSend ==
  /\ threadId # Null
  /\ ~hydrating
  /\ nSends < MaxSends
  /\ nSends' = nSends + 1
  /\ activeThreadRef' = threadId
  /\ IF ~StreamConfigured(streamApiBase)
     THEN /\ history' = Append_(history,
                          Msg([k |-> "c", n |-> nSends + 1], UserTs, "assistant", ConfigError))
          /\ sends' = MarkStale(sends, threadId)
          /\ UNCHANGED << inFlightAbortRef, isStreaming >>
     ELSE LET s == nSends + 1
              h0 == AbortHistory(history, inFlightAbortRef)
              h1 == Append_(h0, Msg(UserId(s), UserTs, "user", UserText))
              h2 == Append_(h1, Msg(AssistantId(s), UserTs, "assistant", Thinking))
              sd == MarkStale(AbortSends(sends, inFlightAbortRef), threadId)
          IN /\ history' = h2
             /\ sends' = [sd EXCEPT ![s] = [IdleSend EXCEPT !.pc = "fetch", !.tid = threadId]]
             /\ inFlightAbortRef' = s
             /\ isStreaming' = TRUE
  /\ UNCHANGED << threadId, hydrating, hydrateError, streamApiBase, decoder, hydrations, nChunks >>

\* ------------------------------------------------------------ the request
\* chatStreamFetch answers with a readable body (lines 773-803)
FetchOk(s) ==
  /\ sends[s].pc = "fetch"
  /\ ~sends[s].aborted
  /\ sends' = [sends EXCEPT ![s] = [ArmFirstByte(@) EXCEPT !.pc = "read"]]
  /\ UNCHANGED << threadId, activeThreadRef, inFlightAbortRef, isStreaming, history,
                  hydrating, hydrateError, streamApiBase, decoder, hydrations, nSends, nChunks >>

\* chatStreamFetch answers with !r.ok or no body (lines 773-774)
FetchBad(s) ==
  /\ sends[s].pc = "fetch"
  /\ ~sends[s].aborted
  /\ sends' = [sends EXCEPT ![s].pc = "errbody"]
  /\ UNCHANGED << threadId, activeThreadRef, inFlightAbortRef, isStreaming, history,
                  hydrating, hydrateError, streamApiBase, decoder, hydrations, nSends, nChunks >>

\* chatStreamFetch rejects
FetchReject(s, e) ==
  /\ sends[s].pc = "fetch"
  /\ e \in Rejections(s)
  /\ Catch(s, e)

\* r.text().catch(() => "") has settled: throw new Error(`HTTP ...`) (line 775)
ErrBody(s) ==
  /\ sends[s].pc = "errbody"
  /\ Catch(s, "HttpError")

\* ------------------------------------------------------------ the read loop
\* decoder.push: no text without bytes
ChunkInputs ==
  { << FALSE, <<>> >>, << TRUE, <<>> >> } \cup { << TRUE, << t >> >> : t \in Tokens }

\* the loop body for a value that reader.read() returned (lines 806-835)
LoopBody(s, bytes, text) ==
  /\ sends[s].pc = "read"
  /\ nChunks' = nChunks + 1
  /\ << bytes, text >> \in ChunkInputs
  /\ IF activeThreadRef # sends[s].tid
     THEN /\ sends' = [sends EXCEPT ![s] = Finished(@, "returned")]
          /\ Finally(s)
          /\ history' = history
     ELSE LET r0 == sends[s]
              r1 == IF bytes
                    THEN IF ~r0.gotAnyByte
                         THEN ArmProgress(DisarmFirstByte([r0 EXCEPT !.gotAnyByte = TRUE]))
                         ELSE ArmProgress(r0)
                    ELSE r0
              r2 == IF text # <<>>
                    THEN [r1 EXCEPT !.sawAnyText = TRUE, !.pending = @ \o text,
                                    !.arrived = @ \o text]
                    ELSE r1
              big == TLen(r2.pending) >= FlushThreshold
          IN /\ sends' = [sends EXCEPT ![s] =
                            IF text = <<>> THEN r2
                            ELSE IF big THEN FlushLocals(r2)
                            ELSE ScheduleFlush(r2)]
             /\ history' = IF text # <<>> /\ big
                           THEN FlushHistory(history, r2, AssistantId(s))
                           ELSE history
             /\ UNCHANGED << inFlightAbortRef, isStreaming >>
  /\ UNCHANGED << threadId, activeThreadRef, hydrating, hydrateError, streamApiBase, decoder,
                  hydrations, nSends >>

\* the loop body, while the model's budget of chunks lasts
OnChunk(s, bytes, text) == nChunks < MaxChunks /\ LoopBody(s, bytes, text)

\* reader.read() returns a value
ReadChunk(s, bytes, text) == ~sends[s].aborted /\ OnChunk(s, bytes, text)

\* reader.read() returns a value although the controller is aborted
LateChunk(s, bytes, text) == sends[s].aborted /\ OnChunk(s, bytes, text)

\* reader.read() rejects
ReadReject(s, e) ==
  /\ sends[s].pc = "read"
  /\ e \in Rejections(s)
  /\ Catch(s, e)

\* the callback of scheduleFlush's timeout (lines 797-800)
FlushTimerFires(s) ==
  /\ sends[s].flushTimer
  /\ sends' = [sends EXCEPT ![s] = Collect(FlushLocals(FlushTimerGone(@)))]
  /\ history' = FlushHistory(history, sends[s], AssistantId(s))
  /\ UNCHANGED << threadId, activeThreadRef, inFlightAbortRef, isStreaming, hydrating,
                  hydrateError, streamApiBase, decoder, hydrations, nSends, nChunks >>

\* the first-byte timeout fires: abort (lines 760-762, 803)
FirstByteTimeout(s) ==
  /\ sends[s].firstByteTimer
  /\ sends' = [AbortController(sends, s) EXCEPT ![s].firstByteTimer = FALSE]
  /\ UNCHANGED << threadId, activeThreadRef, inFlightAbortRef, isStreaming, history,
                  hydrating, hydrateError, streamApiBase, decoder, hydrations, nSends, nChunks >>

\* the progress timeout fires: abort (lines 760-762, 821-823)
ProgressTimeout(s) ==
  /\ sends[s].progressTimer
  /\ sends' = [AbortController(sends, s) EXCEPT ![s].progressTimer = FALSE]
  /\ UNCHANGED << threadId, activeThreadRef, inFlightAbortRef, isStreaming, history,
                  hydrating, hydrateError, streamApiBase, decoder, hydrations, nSends, nChunks >>

\* ------------------------------------------------------------ stream end
Classify_TextBeforeBytes(got, saw, acc) ==
  IF ~saw THEN "poll"
  ELSE IF ~got THEN "nocontent"
  ELSE IF Trim(acc) = <<>> \/ looksLikeBrowsingPlaceholder(Trim(acc)) THEN "poll"
  ELSE "final"

\* the outcome chosen at lines 844-862 from gotAnyByte, sawAnyText and acc
Classify(got, saw, acc) ==
  IF ~got THEN "nocontent"
  ELSE IF ~saw THEN "poll"
  ELSE IF Trim(acc) = <<>> \/ looksLikeBrowsingPlaceholder(Trim(acc)) THEN "poll"
  ELSE "final"

\* pollForFinalAssistant up to its first await (lines 707-714): with the
\* signal aborted it returns at once, and the send ends
EnterPoll(r) ==
  IF r.aborted
  THEN Finished([r EXCEPT !.polled = TRUE], "returned")
  ELSE [ClearTimers(r) EXCEPT !.pc = "poll_fetch", !.polled = TRUE]

\* after reader.read() returned done (lines 807, 838-862)
OnDone(s) ==
  /\ sends[s].pc = "read"
  /\ LET r0 == sends[s]
         r1 == ClearTimers(FlushLocals(FlushTimerGone(r0)))
         h1 == FlushHistory(history, r0, AssistantId(s))
         finalText == Trim(r1.acc)
         cls == Classify(r1.gotAnyByte, r1.sawAnyText, r1.acc)
     IN IF activeThreadRef # r0.tid
        THEN /\ history' = h1
             /\ sends' = [sends EXCEPT ![s] = Finished(r1, "returned")]
             /\ Finally(s)
        ELSE IF cls = "nocontent"
        THEN /\ history' = UpdateText(h1, AssistantId(s), NoContent)
             /\ sends' = [sends EXCEPT ![s] = Finished(r1, "returned")]
             /\ Finally(s)
        ELSE IF cls = "poll"
        THEN /\ history' = IF r1.sawAnyText /\ finalText # <<>>
                           THEN UpdateText(h1, AssistantId(s), Txt(finalText))
                           ELSE h1
             /\ sends' = [sends EXCEPT ![s] = EnterPoll(r1)]
             /\ IF r1.aborted
                THEN Finally(s)
                ELSE UNCHANGED << inFlightAbortRef, isStreaming >>
        ELSE /\ history' = h1
             /\ sends' = [sends EXCEPT ![s] = [Finished(r1, "returned") EXCEPT !.refreshed = TRUE]]
             /\ Finally(s)
  /\ UNCHANGED << threadId, activeThreadRef, hydrating, hydrateError, streamApiBase, decoder,
                  hydrations, nSends, nChunks >>

\* reader.read() returns done
ReadDone(s) == ~sends[s].aborted /\ OnDone(s)

\* reader.read() returns done although the controller is aborted
LateDone(s) == sends[s].aborted /\ OnDone(s)

\* ------------------------------------------------------------ the poller
\* Array.prototype.sort((a, b) => a.ts - b.ts) is stable: m goes behind
\* every entry whose ts is not greater
RECURSIVE InsertByTs(_, _)
InsertByTs(sorted, m) ==
  IF sorted = <<>> THEN << m >>
  ELSE IF Head(sorted).ts <= m.ts THEN << Head(sorted) >> \o InsertByTs(Tail(sorted), m)
  ELSE << m >> \o sorted

RECURSIVE SortByTs(_)
SortByTs(msgs) ==
  IF msgs = <<>> THEN <<>>
  ELSE InsertByTs(SortByTs(SubSeq(msgs, 1, Len(msgs) - 1)), msgs[Len(msgs)])

\* msgs.filter(m => m.role === "assistant" && m.ts >= userTs).sort(...)
Candidates(msgs, userTs) ==
  SortByTs(SelectSeq(msgs, LAMBDA m : m.role = "assistant" /\ m.ts >= userTs))

LatestText_First(msgs, userTs) ==
  LET c == Candidates(msgs, userTs) IN IF c = <<>> THEN Txt(<<>>) ELSE c[1].text

\* normalizeText(candidates[candidates.length - 1]?.text)
LatestText(msgs, userTs) ==
  LET c == Candidates(msgs, userTs) IN IF c = <<>> THEN Txt(<<>>) ELSE c[Len(c)].text

\* a string is truthy when it is not empty
NonEmptyText(t) == t.k # "text" \/ t.v # <<>>

Qualifies_IgnoresPlaceholder(text, lastSeen) ==
  NonEmptyText(text) /\ text # Thinking /\ text # lastSeen

\* the condition of lines 726-731
Qualifies(text, lastSeen) ==
  /\ NonEmptyText(text)
  /\ ~(text.k = "text" /\ looksLikeBrowsingPlaceholder(text.v))
  /\ text # Thinking
  /\ text # lastSeen

PollerStops_Never(aborted, active, tid) == FALSE

\* if (signal.aborted) return; if (activeThreadRef.current !== tid) return;
\* (lines 715-716)
PollerStops(aborted, active, tid) == aborted \/ active # tid

\* getThread answers the poller (lines 714-737)
PollResponse(s, msgs) ==
  /\ sends[s].pc = "poll_fetch"
  /\ LET r == sends[s]
         text == LatestText(msgs, UserTs)
     IN IF PollerStops(r.aborted, activeThreadRef, r.tid)
        THEN /\ sends' = [sends EXCEPT ![s] = Finished(r, "returned")]
             /\ Finally(s)
             /\ history' = history
        ELSE IF Qualifies(text, r.lastSeen)
        THEN /\ history' = UpdateText(history, AssistantId(s), text)
             /\ sends' = [sends EXCEPT ![s] =
                            [Finished(r, "returned") EXCEPT !.refreshed = TRUE]]
             /\ Finally(s)
        ELSE /\ sends' = [sends EXCEPT ![s] =
                            [r EXCEPT !.pc = "poll_sleep",
                                      !.lastSeen = IF NonEmptyText(text) THEN text ELSE @]]
             /\ UNCHANGED << history, inFlightAbortRef, isStreaming >>
  /\ UNCHANGED << threadId, activeThreadRef, hydrating, hydrateError, streamApiBase, decoder,
                  hydrations, nSends, nChunks >>

\* getThread fails in the poller: ignored (lines 738-740)
PollFailure(s) ==
  /\ sends[s].pc = "poll_fetch"
  /\ sends' = [sends EXCEPT ![s].pc = "poll_sleep"]
  /\ UNCHANGED << threadId, activeThreadRef, inFlightAbortRef, isStreaming, history,
                  hydrating, hydrateError, streamApiBase, decoder, hydrations, nSends, nChunks >>

\* sleep(1200) is over: the loop condition Date.now() < deadline, then
\* signal.aborted (lines 710-711).  expired is whether the 60 s have passed;
\* they have after MaxPolls further rounds.
PollWake(s, expired) ==
  /\ sends[s].pc = "poll_sleep"
  /\ sends[s].polls >= MaxPolls => expired
  /\ IF expired
     THEN /\ sends' = [sends EXCEPT ![s] = Finished(@, "returned")]
          /\ Finally(s)
     ELSE IF sends[s].aborted
     THEN /\ sends' = [sends EXCEPT ![s] = Finished(@, "returned")]
          /\ Finally(s)
     ELSE /\ sends' = [sends EXCEPT ![s] = [@ EXCEPT !.pc = "poll_fetch", !.polls = @ + 1]]
          /\ UNCHANGED << inFlightAbortRef, isStreaming >>
  /\ UNCHANGED << threadId, activeThreadRef, history, hydrating, hydrateError,
                  streamApiBase, decoder, hydrations, nSends, nChunks >>

\* ------------------------------------------------------------ specification
Next ==
  \/ SelectInitial
  \/ \E t \in Threads : SwitchThread(t)
  \/ \E t \in Threads : CreateNewThread(t)
  \/ \E t \in Threads, msgs \in BackendHistories : HydrateOk(t, msgs)
  \/ \E t \in Threads : HydrateFail(t)
  \/ Stop
  \/ OnSend
  \/ \E s \in SendIds : FetchOk(s)
  \/ \E s \in SendIds : FetchBad(s)
  \/ \E s \in SendIds, e \in {"TypeError", "AbortError"} : FetchReject(s, e)
  \/ \E s \in SendIds : ErrBody(s)
  \/ \E s \in SendIds, c \in ChunkInputs : ReadChunk(s, c[1], c[2])
  \/ \E s \in SendIds : ReadDone(s)
  \/ \E s \in SendIds, e \in {"TypeError", "AbortError"} : ReadReject(s, e)
  \/ \E s \in SendIds : FlushTimerFires(s)
  \/ \E s \in SendIds : FirstByteTimeout(s)
  \/ \E s \in SendIds : ProgressTimeout(s)
  \/ \E s \in SendIds, msgs \in PollResponses : PollResponse(s, msgs)
  \/ \E s \in SendIds : PollFailure(s)
  \/ \E s \in SendIds, expired \in BOOLEAN : PollWake(s, expired)

Spec == Init /\ [][Next]_vars

NextLate ==
  \/ Next
  \/ \E s \in SendIds, c \in ChunkInputs : LateChunk(s, c[1], c[2])
  \/ \E s \in SendIds : LateDone(s)

SpecLate == Init /\ [][NextLate]_vars

\* What the runtime schedules by itself: a timeout that is set fires, the
\* sleep of the poller ends, and a fetch or read whose signal is aborted
\* rejects.  That the network ever answers is not among it.
Fairness ==
  \A s \in SendIds :
    /\ WF_vars(FirstByteTimeout(s))
    /\ WF_vars(ProgressTimeout(s))
    /\ WF_vars(FlushTimerFires(s))
    /\ WF_vars(FetchReject(s, "AbortError"))
    /\ WF_vars(ReadReject(s, "AbortError"))
    /\ WF_vars(\E expired \in BOOLEAN : PollWake(s, expired))

SpecLive == Spec /\ Fairness

\* ------------------------------------------------------ one stream alone
\* One send on a hydrated thread, followed through a stream of several
\* chunks.
StreamSends == 1
StreamChunks == 3

\* the first thread has been selected and its history loaded
InitStream ==
  /\ threadId = "A"
  /\ activeThreadRef = "A"
  /\ inFlightAbortRef = NoCtrl
  /\ isStreaming = FALSE
  /\ history \in BackendHistories \cup {<<>>}
  /\ hydrating = FALSE
  /\ hydrateError = FALSE
  /\ streamApiBase = TRUE
  /\ hydrations = [t \in Threads |-> 0]
  /\ nSends = 0
  /\ nChunks = 0
  /\ sends = [s \in SendIds |-> IdleSend]
  /\ decoder = IdleDecoder

StreamSend == nSends < StreamSends /\ OnSend

\* reader.read() returns a value
StreamChunk(s, bytes, text) ==
  ~sends[s].aborted /\ nChunks < StreamChunks /\ LoopBody(s, bytes, text)

NextStream ==
  \/ StreamSend
  \/ Stop
  \/ \E s \in SendIds : FetchOk(s)
  \/ \E s \in SendIds, c \in ChunkInputs : StreamChunk(s, c[1], c[2])
  \/ \E s \in SendIds : ReadDone(s)
  \/ \E s \in SendIds, e \in {"TypeError", "AbortError"} : ReadReject(s, e)
  \/ \E s \in SendIds : FlushTimerFires(s)
  \/ \E s \in SendIds : FirstByteTimeout(s)
  \/ \E s \in SendIds : ProgressTimeout(s)
  \/ \E s \in SendIds, msgs \in PollResponses : PollResponse(s, msgs)
  \/ \E s \in SendIds : PollFailure(s)
  \/ \E s \in SendIds, expired \in BOOLEAN : PollWake(s, expired)

SpecStream == InitStream /\ [][NextStream]_vars

SpecStreamLive == SpecStream /\ Fairness

\* ------------------------------------------------------ the decoder alone
runtimeVars ==
  << threadId, activeThreadRef, inFlightAbortRef, isStreaming, history, hydrating,
     hydrateError, streamApiBase, hydrations, nSends, nChunks, sends >>

\* a fresh decoder of a send (line 779) before any stream of its inputs
InitDecoder ==
  /\ threadId = Null
  /\ activeThreadRef = Null
  /\ inFlightAbortRef = NoCtrl
  /\ isStreaming = FALSE
  /\ history = <<>>
  /\ hydrating = FALSE
  /\ hydrateError = FALSE
  /\ streamApiBase = TRUE
  /\ hydrations = [t \in Threads |-> 0]
  /\ nSends = 0
  /\ nChunks = 0
  /\ sends = [s \in SendIds |-> IdleSend]
  /\ decoder \in { Feed(input) : input \in FramedInputs \cup RawInputs }

\* decoder.push(value) with the next n bytes of the stream (line 827)
Push(n) ==
  /\ n \in 1 .. Len(decoder.rest)
  /\ LET r == push(decoder.d, SubSeq(decoder.rest, 1, n))
     IN decoder' =
          [decoder EXCEPT
             !.rest = SubSeq(decoder.rest, n + 1, Len(decoder.rest)),
             !.d = r.d,
             !.out = @ \o r.text,
             !.metas = IF r.meta = Undefined THEN @ ELSE Append(@, r.meta)]
  /\ UNCHANGED runtimeVars

NextDecoder == \E n \in 1 .. (MaxRawLen + DelimLen + MaxBodyLen + 4) : Push(n)

SpecDecoder == InitDecoder /\ [][NextDecoder]_vars

\* ------------------------------------------------------------ claims
PlaceholderShown(h, s) == HasMsg(h, AssistantId(s))

\* C1: when a send's stream ends while another thread than the send's is
\* the active one, the stream-end processing (final flush, classification,
\* poller hand-off, refresh) leaves the transcript as it was.
C1_StaleStreamEndChangesNothing ==
  [][\A s \in SendIds :
       (OnDone(s) /\ activeThreadRef # sends[s].tid) => history' = history]_vars

\* text of the stream of send s is written to its placeholder in this step
StreamTextWritten(s) ==
  /\ PlaceholderShown(history, s)
  /\ PlaceholderShown(history', s)
  /\ TextOf(history', AssistantId(s)) # TextOf(history, AssistantId(s))
  /\ TextOf(history', AssistantId(s)).k = "text"

\* C2: once the user has switched away from the thread of a send, no step
\* writes text of that send's stream to the transcript.
C2_NoStreamTextAfterSwitch ==
  [][\A s \in SendIds : sends[s].stale => ~StreamTextWritten(s)]_vars

\* the sends whose request is in flight: awaiting the network, not aborted
InFlightSends ==
  { s \in SendIds : sends[s].pc \in {"fetch", "errbody", "read", "poll_fetch"}
                    /\ ~sends[s].aborted }

\* C3: at most one network operation, a hydration or a streaming send, is
\* in flight at any time.
C3_AtMostOneInFlight == HydTotal + Cardinality(InFlightSends) <= 1

\* the sends that have not returned and whose controller is not aborted
Unaborted == { s \in SendIds : Live(s) /\ ~sends[s].aborted }

\* a send, a thread switch, a new thread or a hydration starts in this step
StartStep ==
  \/ nSends' # nSends
  \/ threadId' # threadId
  \/ \E t \in Threads : hydrations'[t] > hydrations[t]

\* C4: every start of a send, thread switch, new thread or hydration aborts
\* the controller held in the slot, and never are there two sends whose
\* controllers are both un-aborted.
C4_StartsAbortTheSlot ==
  /\ [](Cardinality(Unaborted) <= 1)
  /\ [][(StartStep /\ streamApiBase /\ inFlightAbortRef # NoCtrl)
          => sends'[inFlightAbortRef].aborted]_vars

\* C4's case: a send was started while another was live; the older one is
\* aborted, the newer one is not
C4_Witness ==
  \E s1, s2 \in SendIds :
    /\ Live(s1) /\ Live(s2)
    /\ sends[s1].aborted /\ ~sends[s2].aborted

\* C5: the placeholder of a send that stop() aborted shows the stopped
\* indicator once the send has terminated.
C5_StoppedStays ==
  \A s \in SendIds :
    (sends[s].stopped /\ sends[s].pc = "done" /\ PlaceholderShown(history, s))
      => TextOf(history, AssistantId(s)) = Stopped

\* C6: a switch to another thread that cancels the send in the slot leaves
\* the transcript as it was.
C6_SwitchLeavesTranscript ==
  [][(threadId # Null /\ threadId' # threadId /\ inFlightAbortRef # NoCtrl)
       => history' = history]_vars

\* C7: a send whose controller has been aborted never shows the error
\* indicator in its placeholder and never throws to its caller.
C7_CancelledNeverErrors ==
  \A s \in SendIds :
    sends[s].aborted =>
      /\ sends[s].result # "thrown"
      /\ PlaceholderShown(history, s) => TextOf(history, AssistantId(s)).k # "error"

\* the streaming request of send s fails with the error e, not a cancellation
FailStep(s, e) ==
  \/ e = "HttpError" /\ ErrBody(s)
  \/ e = "TypeError" /\ (FetchReject(s, e) \/ ReadReject(s, e))

\* what C8 says of the transcript and the caller when the request fails
FailureShown(s, e) ==
  IF activeThreadRef = sends[s].tid
  THEN /\ sends'[s].result = "thrown"
       /\ PlaceholderShown(history, s) =>
            /\ PlaceholderShown(history', s)
            /\ TextOf(history', AssistantId(s)) = ErrorText(e)
  ELSE /\ sends'[s].result = "returned"
       /\ history' = history

C9_OneOutcome ==
  [][\A s \in SendIds :
       (OnDone(s) /\ activeThreadRef = sends[s].tid) =>
         LET decoded == sends[s].acc \o sends[s].pending
             shown == PlaceholderShown(history', s)
             text == TextOf(history', AssistantId(s))
         IN IF ~sends[s].gotAnyByte
            THEN /\ sends'[s].pc = "done" /\ ~sends'[s].refreshed
                 /\ shown => text = NoContent
            ELSE IF Trim(decoded) = <<>> \/ Head(Trim(decoded)) = "b"
            THEN /\ sends'[s].pc = (IF sends[s].aborted THEN "done" ELSE "poll_fetch")
                 /\ ~sends'[s].refreshed
                 /\ shown => text # NoContent
            ELSE /\ sends'[s].pc = "done" /\ sends'[s].refreshed
                 /\ (shown /\ ~sends[s].aborted) => text = Txt(decoded)]_vars

\* C9's case: a stream has ended on its active thread with real text and
\* the send has returned final, with a refresh
C9_Witness ==
  \E s \in SendIds :
    /\ sends[s].pc = "done" /\ sends[s].refreshed /\ ~sends[s].aborted
    /\ activeThreadRef = sends[s].tid
    /\ PlaceholderShown(history, s)
    /\ TextOf(history, AssistantId(s)) = Txt(<<"x">>)

\* C10: before any byte only the first-byte timer is scheduled, after any
\* byte only the progress timer; never both.
C10_TimersDisjoint ==
  \A s \in SendIds :
    /\ ~(sends[s].firstByteTimer /\ sends[s].progressTimer)
    /\ ~sends[s].gotAnyByte => ~sends[s].progressTimer
    /\ sends[s].gotAnyByte => ~sends[s].firstByteTimer

\* C10's case: a byte has arrived, and the progress timer is the one scheduled
C10_Witness ==
  \E s \in SendIds :
    sends[s].pc = "read" /\ sends[s].gotAnyByte /\ sends[s].progressTimer

\* the send awaits the response or the first byte of its stream
AwaitsFirstByte(s) == sends[s].pc \in {"fetch", "read"} /\ ~sends[s].gotAnyByte

\* C11: a send that awaits the response or the first byte of its stream
\* does not wait forever: a byte arrives, or the send is cancelled or ends.
C11_NoByteIsCancelled ==
  \A s \in SendIds :
    AwaitsFirstByte(s) ~> (sends[s].aborted \/ ~AwaitsFirstByte(s))

\* C12: when a stream JSON(M) + 8 zero bytes + UTF8(B) has been fed to a
\* fresh decoder, in whatever chunks, the metadata returned are M, from
\* one push, and the texts returned concatenate to B.
C12_FramedRoundTrip ==
  (decoder.input.kind = "framed" /\ decoder.rest = <<>>) =>
    /\ decoder.metas = << decoder.input.m >>
    /\ decoder.out = decoder.input.body

\* the stream fed to the decoder has a first non-white-space byte, not "{"
PlainInput == firstNonWhitespaceByte(decoder.input.stream) \notin {Null, "{"}

\* C13: of a stream whose first non-white-space byte is not "{", in
\* whatever chunks, no push returns metadata, and once it is fed the texts
\* returned concatenate to the UTF-8 decoding of all its bytes.
C13_PlainIsPassthrough ==
  PlainInput =>
    /\ decoder.metas = <<>>
    /\ decoder.rest = <<>> => decoder.out = DecodeAll(decoder.input.stream)

\* the bytes the decoder has been given
Consumed ==
  SubSeq(decoder.input.stream, 1, Len(decoder.input.stream) - Len(decoder.rest))

\* the decoder has switched to passthrough and holds nothing back
PassesThrough == decoder.d.startedBody /\ decoder.d.buf = <<>>

\* C14 as stated: once 32 KiB or more have been delivered the decoder has
\* switched to passthrough and holds nothing back.
C14_CapAt32K == ByteLen(Consumed) >= MaxMetaBytes => PassesThrough

\* C14 amended: once more than 32 KiB have been delivered the decoder has
\* switched to passthrough and holds nothing back; if no delimiter was among
\* the bytes, all of them have been emitted as text.  It never holds back
\* more than 32 KiB.
C14_CapAbove32K ==
  /\ ByteLen(decoder.d.buf) <= MaxMetaBytes
  /\ ByteLen(Consumed) > MaxMetaBytes =>
       /\ PassesThrough
       /\ indexOfSubarray(Consumed, DELIM) = 0 =>
            /\ decoder.metas = <<>>
            /\ decoder.out = DecodeStream(Consumed, FALSE).text

\* C14's case: a stream that starts with "{" has delivered more than 32 KiB
\* without a delimiter, and the decoder has emitted them
C14_Witness ==
  /\ firstNonWhitespaceByte(Consumed) = "{"
  /\ indexOfSubarray(Consumed, DELIM) = 0
  /\ ByteLen(Consumed) > MaxMetaBytes
  /\ PassesThrough
  /\ decoder.out # <<>>

\* the poller of send s takes a step: getThread answers or fails, or the
\* sleep ends
PollerStep(s) ==
  /\ sends[s].pc \in {"poll_fetch", "poll_sleep"}
  /\ \/ \E msgs \in PollResponses : PollResponse(s, msgs)
     \/ PollFailure(s)
     \/ \E expired \in BOOLEAN : PollWake(s, expired)

\* C15: a step of the poller of a send whose controller is aborted, or
\* whose thread is or has been other than the active one, leaves the
\* transcript as it was and refreshes nothing; the poller ends with it,
\* or, after a failed getThread, with the end of the sleep that follows.
C15_PollerSilentOnceCancelled ==
  [][\A s \in SendIds :
       ((sends[s].aborted \/ sends[s].stale \/ activeThreadRef # sends[s].tid)
          /\ PollerStep(s)) =>
         /\ history' = history
         /\ ~sends'[s].refreshed
         /\ ~PollFailure(s) => sends'[s].pc = "done"]_vars

\* C15's case: a send that was polling has been cancelled and has ended,
\* and its placeholder shows what the cancellation left there
C15_Witness ==
  \E s \in SendIds :
    /\ sends[s].polled /\ sends[s].aborted /\ sends[s].stopped
    /\ sends[s].pc = "done" /\ ~sends[s].refreshed
    /\ PlaceholderShown(history, s)
    /\ TextOf(history, AssistantId(s)) = Stopped

\* the entries of a poll's answer that C16 lets the poller consider
Considered(msgs) ==
  { i \in DOMAIN msgs : msgs[i].role = "assistant" /\ msgs[i].ts >= UserTs }

\* the one C16 selects: greatest timestamp, the later entry on a tie
Selected(msgs) ==
  CHOOSE i \in Considered(msgs) :
    \A j \in Considered(msgs) :
      msgs[j].ts < msgs[i].ts \/ (msgs[j].ts = msgs[i].ts /\ j <= i)

\* a text C16 lets the poller commit: not empty, not the browsing
\* placeholder, not the interim text
Committable(text) ==
  /\ text.k \in {"text", "thinking"}
  /\ text # Txt(<<>>)
  /\ text # Thinking
  /\ ~(Trim(text.v) # <<>> /\ Head(Trim(text.v)) = "b")

\* C16: when getThread answers a poller that is neither cancelled nor
\* stale, the placeholder gets the text of the selected entry if there is one
\* and its text is committable, and the poller ends with a refresh;
\* otherwise the transcript stays as it was and the poller goes on.
C16_PollCommitsLatest ==
  [][\A s \in SendIds :
       (sends[s].pc = "poll_fetch" /\ ~sends[s].aborted
          /\ activeThreadRef = sends[s].tid) =>
         \A msgs \in PollResponses :
           PollResponse(s, msgs) =>
             IF Considered(msgs) # {} /\ Committable(msgs[Selected(msgs)].text)
             THEN /\ history' = UpdateText(history, AssistantId(s), msgs[Selected(msgs)].text)
                  /\ sends'[s].pc = "done" /\ sends'[s].refreshed
             ELSE /\ history' = history
                  /\ sends'[s].pc = "poll_sleep"]_vars

\* C16's case: the poller has committed the text of the latest assistant
\* entry of an answer that also held an older assistant entry and a user
\* entry with the same timestamp
C16_Witness ==
  \E s \in SendIds :
    /\ sends[s].polled /\ sends[s].pc = "done" /\ sends[s].refreshed
    /\ PlaceholderShown(history, s)
    /\ TextOf(history, AssistantId(s)) = Txt(<<"x", "x">>)

\* the stream of send s has yielded the browsing placeholder and nothing
\* else, it has closed, and the send is polling
PollsAfterBrowsing(s) ==
  /\ sends[s].pc = "poll_fetch" /\ sends[s].polled
  /\ sends[s].sawAnyText /\ looksLikeBrowsingPlaceholder(sends[s].acc)
  /\ ~sends[s].aborted /\ activeThreadRef = sends[s].tid

\* C17: when the stream has yielded only the browsing placeholder and a
\* poll returns a latest assistant entry, not older than the user message,
\* with real text, that text goes to the placeholder and the poller ends;
\* a send whose poller has committed has ended and has no timer left that
\* could write.
C17_BrowsingThenOneCommit ==
  /\ [](\A s \in SendIds :
          (sends[s].polled /\ sends[s].refreshed) =>
            /\ sends[s].pc = "done"
            /\ ~sends[s].flushTimer
            /\ ~sends[s].firstByteTimer /\ ~sends[s].progressTimer)
  /\ [][\A s \in SendIds :
          PollsAfterBrowsing(s) =>
            \A msgs \in PollResponses :
              (PollResponse(s, msgs) /\ Considered(msgs) # {}
                 /\ Committable(msgs[Selected(msgs)].text)) =>
                /\ history' = UpdateText(history, AssistantId(s), msgs[Selected(msgs)].text)
                /\ sends'[s].pc = "done" /\ sends'[s].refreshed]_vars

\* C17's case: the stream has yielded only the browsing placeholder, which
\* the placeholder shows, a first poll has committed nothing and a later
\* poll is awaiting its answer
C17_Witness ==
  \E s \in SendIds :
    /\ PollsAfterBrowsing(s)
    /\ sends[s].polls >= 1
    /\ PlaceholderShown(history, s)
    /\ TextOf(history, AssistantId(s)) = Txt(<<"b">>)

\* C18: the poll loop terminates: a send that has entered the poller ends.
C18_PollerTerminates ==
  \A s \in SendIds : sends[s].polled ~> sends[s].pc = "done"

\* The terminal states of a send that has returned.  Finalized: a final
\* text was committed, by the stream end or by the poller, which both
\* follow it with refreshThreads.  Errored: the call threw, or its
\* placeholder shows an error indicator.
Finalized(s) == sends[s].pc = "done" /\ sends[s].refreshed
Errored(s) ==
  /\ sends[s].pc = "done"
  /\ \/ sends[s].result = "thrown"
     \/ /\ PlaceholderShown(history, s)
        /\ TextOf(history, AssistantId(s)).k \in {"error", "nocontent"}

\* C19: a send that entered the poller and was not cancelled ends Finalized
\* (the poller committed a final text) or Errored (the poll deadline was
\* reached).
C19_PolledEndsFinalOrErrored ==
  \A s \in SendIds :
    ( /\ sends[s].pc = "done" /\ sends[s].polled
      /\ ~sends[s].aborted /\ ~sends[s].stale
      /\ PlaceholderShown(history, s) ) =>
      (Finalized(s) \/ Errored(s))

\* the request, handle and timers of every send call
SendMachinery ==
  [s \in SendIds |-> << sends[s].pc, sends[s].aborted, sends[s].firstByteTimer,
                        sends[s].progressTimer, sends[s].flushTimer >>]

\* C20: without a configured streaming endpoint, onSend appends exactly one
\* assistant message carrying the static configuration error, and starts
\* nothing: no request, no cancellation handle, no timer, no streaming flag.
C20_UnconfiguredSendIsInline ==
  [][(~streamApiBase /\ OnSend) =>
       /\ Len(history') = Len(history) + 1
       /\ SubSeq(history', 1, Len(history)) = history
       /\ history'[Len(history')].role = "assistant"
       /\ history'[Len(history')].text = ConfigError
       /\ SendMachinery' = SendMachinery
       /\ \A s \in SendIds : sends'[s].pc = "idle"
       /\ inFlightAbortRef' = inFlightAbortRef /\ inFlightAbortRef = NoCtrl
       /\ isStreaming' = isStreaming /\ ~isStreaming]_vars

\* C20's case: an unconfigured client has answered a send with the inline
\* message, and no call, handle or timer exists
C20_Witness ==
  /\ ~streamApiBase
  /\ nSends > 0
  /\ history # <<>>
  /\ history[Len(history)].text = ConfigError
  /\ inFlightAbortRef = NoCtrl
  /\ \A s \in SendIds : sends[s] = IdleSend

\* the ids and texts the transcript operations are tried with: every id
\* the program creates and one that no entry has
TriedIds ==
  {UserId(s) : s \in SendIds} \cup {AssistantId(s) : s \in SendIds}
    \cup {BackendId(1), BackendId(2), BackendId(9)}
TriedTexts == {Stopped, Txt(<<"x">>)}
TriedMsgs ==
  {Msg(UserId(s), UserTs, "user", UserText) : s \in SendIds}
    \cup {Msg(AssistantId(s), UserTs, "assistant", Thinking) : s \in SendIds}

\* C21: on every transcript the program reaches, append adds exactly one
\* entry, at the end, and keeps the entries before it; updateText(id, t)
\* keeps the length and the order, sets the text of the entries with that
\* id, changes no other field and no other entry, and changes nothing when
\* no entry has the id.
C21_TranscriptOpsKeepEntries ==
  /\ \A m \in TriedMsgs :
       LET a == Append_(history, m)
       IN /\ Len(a) = Len(history) + 1
          /\ a[Len(a)] = m
          /\ \A i \in 1 .. Len(history) : a[i] = history[i]
  /\ \A id \in TriedIds, t \in TriedTexts :
       LET u == UpdateText(history, id, t)
       IN /\ DOMAIN u = DOMAIN history
          /\ \A i \in DOMAIN history :
               /\ u[i].id = history[i].id
               /\ u[i].ts = history[i].ts
               /\ u[i].role = history[i].role
               /\ u[i].text = (IF history[i].id = id THEN t ELSE history[i].text)
               /\ DOMAIN u[i] = DOMAIN history[i]
          /\ ~HasMsg(history, id) => u = history

\* C21's case: both operations have acted on a transcript that had entries
\* before: a send on a hydrated thread whose placeholder shows streamed text
C21_Witness ==
  \E s \in SendIds :
    /\ Len(history) >= 4
    /\ history[1].id = BackendId(1)
    /\ HasMsg(history, UserId(s))
    /\ HasMsg(history, AssistantId(s))
    /\ TextOf(history, AssistantId(s)) = Txt(<<"x">>)

\* a step that replaces the transcript by what the backend holds
Hydrated ==
  \/ \E t \in Threads, msgs \in BackendHistories : HydrateOk(t, msgs)
  \/ \E t \in Threads : HydrateFail(t)

\* C22: a step changes the text of a transcript entry only if the entry is
\* the assistant placeholder of a send that is live when the step is taken,
\* and no step but a hydration changes the id at any position.
C22_OnlyLivePlaceholdersChange ==
  [][/\ \A i \in DOMAIN history :
          ( /\ HasMsg(history', history[i].id)
            /\ TextOf(history', history[i].id) # history[i].text ) =>
            /\ history[i].role = "assistant"
            /\ \E s \in SendIds : history[i].id = AssistantId(s) /\ Live(s)
     /\ ~Hydrated =>
          \A i \in DOMAIN history \cap DOMAIN history' :
            history'[i].id = history[i].id]_vars

IsPrefix(p, q) == Len(p) <= Len(q) /\ SubSeq(q, 1, Len(p)) = p

\* a send in its read loop that nothing has cancelled
Reading(s) == sends[s].pc = "read" /\ ~sends[s].aborted

\* while the stream lasts: the accumulated text acc is a prefix of the
\* chunk texts in arrival order, what is not yet in acc is exactly what
\* pending holds, and the placeholder shows acc once anything was pushed
StreamInOrder ==
  \A s \in SendIds :
    Reading(s) =>
      /\ IsPrefix(sends[s].acc, sends[s].arrived)
      /\ sends[s].acc \o sends[s].pending = sends[s].arrived
      /\ PlaceholderShown(history, s) =>
           TextOf(history, AssistantId(s)) =
             (IF sends[s].acc = <<>> THEN Thinking ELSE Txt(sends[s].acc))

\* at stream end: the final flush makes acc the whole concatenation, and
\* the placeholder shows it, trimmed where lines 855-857 write the trimmed
\* text before the poller
FinalFlushIsWhole ==
  \A s \in SendIds :
    (sends[s].pc = "read" /\ sends[s].arrived # <<>> /\ ReadDone(s)) =>
      /\ FlushLocals(sends[s]).acc = sends[s].arrived
      /\ PlaceholderShown(history', s) =>
           TextOf(history', AssistantId(s)) \in
             {Txt(sends[s].arrived), Txt(Trim(sends[s].arrived))}

\* C23: within one stream the text pushed to the placeholder is always a
\* prefix of the concatenation of the decoded chunk texts in arrival order,
\* and after the final flush at stream end it is the whole concatenation.
C23_FlushesKeepArrivalOrder ==
  []StreamInOrder /\ [][FinalFlushIsWhole]_vars

\* C23's case: three chunks with text have arrived, the first is flushed,
\* the others are pending
C23_Witness ==
  \E s \in SendIds :
    /\ Reading(s)
    /\ Len(sends[s].arrived) = 3
    /\ sends[s].arrived[1] # sends[s].arrived[2]
    /\ Len(sends[s].acc) = 1
    /\ Len(sends[s].pending) = 2

\* flush applied to the locals r of send s and to transcript h
FlushOnce(h, r, s) == << FlushHistory(h, r, AssistantId(s)), FlushLocals(r) >>

\* with nothing pending flush returns what it was given, and a second
\* flush after a first returns what the first returned
FlushIsIdempotent ==
  \A s \in SendIds :
    LET r == sends[s]
        once == FlushOnce(history, r, s)
    IN /\ r.pending = <<>> => once = << history, r >>
       /\ FlushOnce(once[1], once[2], s) = once

\* the flush timeout firing with nothing pending changes neither the
\* transcript nor acc
EmptyFlushChangesNothing ==
  \A s \in SendIds :
    (sends[s].pending = <<>> /\ FlushTimerFires(s)) =>
      /\ history' = history
      /\ sends'[s] = Collect(FlushTimerGone(sends[s]))
      /\ sends[s].pc = "read" => sends'[s].acc = sends[s].acc

\* C24: a flush with an empty pending buffer changes neither the
\* accumulated text nor the transcript, and consecutive flushes have the
\* effect of one.
C24_EmptyFlushIsNoOp ==
  []FlushIsIdempotent /\ [][EmptyFlushChangesNothing]_vars

\* C24's case: a flush timeout is due while the stream goes on and nothing is
\* pending, because a later chunk filled the buffer and was flushed at once
C24_Witness ==
  \E s \in SendIds :
    /\ Reading(s)
    /\ sends[s].flushTimer
    /\ sends[s].pending = <<>>
    /\ sends[s].acc # <<>>

\* the slot is empty or holds the controller of the send started last
SlotHoldsLatest ==
  inFlightAbortRef # NoCtrl => (inFlightAbortRef = nSends /\ Live(inFlightAbortRef))

\* a send that returns or throws empties the slot if the slot holds its own
\* controller and leaves it as it is otherwise
TerminationClearsOwn ==
  \A s \in SendIds :
    (Live(s) /\ sends'[s].pc = "done") =>
      inFlightAbortRef' = (IF inFlightAbortRef = s THEN NoCtrl ELSE inFlightAbortRef)

\* C25: a terminating send clears the cancellation-handle slot only if the
\* slot holds its own handle; a non-empty slot holds the handle of the most
\* recently started send, and an older send that finishes late leaves the
\* slot of a newer send alone.
C25_SlotBelongsToLatest ==
  []SlotHoldsLatest /\ [][TerminationClearsOwn]_vars

\* C25's case: an older send has finished after a newer one was started,
\* and the slot holds the newer one's controller
C25_Witness ==
  /\ sends[1].pc = "done" /\ sends[1].aborted
  /\ Live(2)
  /\ inFlightAbortRef = 2

TimersOff(s) == ~sends[s].firstByteTimer /\ ~sends[s].progressTimer

\* a send that has returned, thrown or handed over to the poller has
\* neither stream timer scheduled
ExitsDisarm ==
  \A s \in SendIds :
    sends[s].pc \in {"done", "poll_fetch", "poll_sleep"} => TimersOff(s)

\* onTimeout of createStreamTimers does not run for a send that is over
NoTimeoutAfterExit ==
  \A s \in SendIds :
    sends[s].pc = "done" => ~(FirstByteTimeout(s) \/ ProgressTimeout(s))

\* C26: on every exit path of a send the first-byte and the progress timer
\* are disarmed, so neither timeout callback of createStreamTimers runs
\* after the send has terminated.
C26_ExitsDisarmTimers ==
  []ExitsDisarm /\ [][NoTimeoutAfterExit]_vars

\* C26's case: a send that had received bytes, so that its progress timer
\* was armed, has left by the stale return or by the catch
C26_Witness ==
  \E s \in SendIds :
    /\ sends[s].pc = "done"
    /\ sends[s].gotAnyByte
    /\ sends[s].result \in {"returned", "thrown"}
    /\ TimersOff(s)

\* the progress timeout has aborted send s in its read loop: bytes have
\* arrived, so the progress timer was the one armed, and the slot still
\* holds the controller, which abortInFlight would have taken out
Stalled(s) ==
  /\ sends[s].pc = "read"
  /\ sends[s].aborted
  /\ sends[s].gotAnyByte
  /\ inFlightAbortRef = s

\* C27: a send that the progress timer aborted mid-stream does not end
\* before the poller was started for it or an error was written to its
\* placeholder.
C27_StalledIsTakenOver ==
  [][\A s \in SendIds :
       (Stalled(s) /\ sends'[s].pc = "done") =>
         \/ sends'[s].polled
         \/ /\ PlaceholderShown(history', s)
            /\ TextOf(history', AssistantId(s)).k = "error"]_vars

\* the bytes the push of this step was given
Pushed == SubSeq(decoder.rest, 1, Len(decoder.rest) - Len(decoder'.rest))

\* the flags of the decoder are never reset
ModeIsPermanent ==
  /\ decoder.d.startedBody => decoder'.d.startedBody
  /\ decoder.d.decidedPlainText => decoder'.d.decidedPlainText

\* a push after the body has started decodes what it is given, returns no
\* metadata and keeps nothing
LaterPushPassesThrough ==
  decoder.d.startedBody =>
    /\ decoder'.metas = decoder.metas
    /\ decoder'.d.buf = <<>>
    /\ decoder'.out = decoder.out \o DecodeStream(Pushed, decoder.d.pend).text

\* no push returns text before the body has started, nor metadata after text
MetaBeforeText ==
  /\ decoder.out # <<>> => decoder.d.startedBody
  /\ Len(decoder.metas) <= 1

\* C28: once a push has started the body, by the delimiter, the cap or the
\* plain-text decision, every later push is pure passthrough; metadata come
\* from at most one push and never after body text.
C28_BodyModeIsPermanent ==
  []MetaBeforeText /\ [][ModeIsPermanent /\ LaterPushPassesThrough]_vars

\* C28's case: the push that found the delimiter has returned metadata and
\* text, and more of the body is still to be pushed
C28_Witness ==
  /\ decoder.d.startedBody
  /\ decoder.metas # <<>>
  /\ decoder.out # <<>>
  /\ decoder.rest # <<>>

\* where the first 8 zero bytes of the stream begin, and the bytes before
\* and after them
DelimAt == indexOfSubarray(decoder.input.stream, DELIM)
BeforeDelim == SubSeq(decoder.input.stream, 1, DelimAt - 1)
AfterDelim ==
  SubSeq(decoder.input.stream, DelimAt + DelimLen, Len(decoder.input.stream))

\* a stream in which a push finds the delimiter, behind bytes that are not
\* valid JSON: it opens with "{", so that the decoder waits for metadata,
\* and stays within the cap
MalformedMeta ==
  /\ DelimAt # 0
  /\ firstNonWhitespaceByte(decoder.input.stream) = "{"
  /\ ~OverCap(decoder.input.stream)
  /\ \A m \in JsonObjects : JSON(m) # TrimWs(DecodeAll(BeforeDelim))

\* the text a stream with valid metadata and the same bytes behind the
\* delimiter has produced once the decoder was given as many of them
BodySoFar ==
  LET given == Len(Consumed) - (DelimAt + DelimLen - 1)
  IN IF given <= 0 THEN <<>> ELSE DecodeStream(SubSeq(AfterDelim, 1, given), FALSE).text

\* C29: when the bytes before the delimiter are not valid JSON, no push
\* returns metadata, and the texts returned are those of the bytes behind
\* the delimiter alone, as with valid metadata.
C29_MalformedMetaIsDropped ==
  MalformedMeta =>
    /\ decoder.metas = <<>>
    /\ decoder.d.buf = <<>> => decoder.out = BodySoFar
    /\ decoder.d.buf # <<>> => (decoder.out = <<>> /\ ~decoder.d.startedBody)

\* C29's case: the delimiter was found behind "{a", the body went on in a
\* later push, and all of it has been emitted
C29_Witness ==
  /\ MalformedMeta
  /\ decoder.rest = <<>>
  /\ Len(AfterDelim) = 2
  /\ decoder.out = DecodeStream(AfterDelim, FALSE).text
  /\ decoder.out # <<>>

\* between two chunks: pending is below the threshold, a flush timeout is
\* set whenever it is not empty, and never more than one
PendingIsBounded ==
  \A s \in SendIds :
    /\ sends[s].flushTimeouts <= 1
    /\ Reading(s) =>
         /\ TLen(sends[s].pending) < FlushThreshold
         /\ sends[s].pending # <<>> =>
              (sends[s].flushTimer /\ sends[s].flushTimeouts = 1)

\* text that is pending is flushed
PendingIsFlushed ==
  \A s \in SendIds : (sends[s].pending # <<>>) ~> (sends[s].pending = <<>>)

\* C30: after each chunk the pending buffer holds fewer than 2048
\* characters, and whenever it is not empty exactly one flush timeout is
\* set; so pending text does not stay unflushed.
C30_PendingBoundedAndFlushed ==
  []PendingIsBounded /\ PendingIsFlushed

\* C30's case: a chunk has filled the buffer to the threshold and was
\* flushed at once, and the text of a later chunk waits for the timeout
C30_Witness ==
  \E s \in SendIds :
    /\ Reading(s)
    /\ TLen(sends[s].acc) >= FlushThreshold
    /\ sends[s].pending # <<>>
    /\ sends[s].flushTimer

\* getThread answers or fails for a hydration of thread t
HydrationResponse(t) ==
  \/ \E msgs \in BackendHistories : HydrateOk(t, msgs)
  \/ HydrateFail(t)

\* C31: a hydration response for a thread that is not the active one when
\* it is handled changes neither the transcript nor the hydration error nor
\* the loading flag; one for the active thread ends the loading.
C31_StaleHydrationIsDiscarded ==
  [][\A t \in Threads :
       (hydrations[t] > 0 /\ HydrationResponse(t)) =>
         IF activeThreadRef # t
         THEN UNCHANGED << history, hydrateError, hydrating >>
         ELSE ~hydrating']_vars

\* C31's case: the transcript of the active thread is loaded and the
\* response for another thread is still to be handled
C31_Witness ==
  \E t \in Threads :
    /\ hydrations[t] > 0
    /\ activeThreadRef \notin {t, Null}
    /\ ~hydrating
    /\ history # <<>>

\* C32: while a send is in flight and not cancelled, the is-streaming
\* indicator is true.
C32_StreamingWhileInFlight ==
  \A s \in SendIds : (Live(s) /\ ~sends[s].aborted) => isStreaming

IndexOf(h, id) == CHOOSE i \in DOMAIN h : h[i].id = id

\* C33: while a send is in flight and not cancelled, the user message and
\* the placeholder it appended are in the transcript, in that order.
C33_SendKeepsItsEntries ==
  \A s \in SendIds :
    (Live(s) /\ ~sends[s].aborted) =>
      /\ HasMsg(history, UserId(s))
      /\ HasMsg(history, AssistantId(s))
      /\ IndexOf(history, UserId(s)) < IndexOf(history, AssistantId(s))

\* C34: a step that writes the stopped indicator into an entry writes it
\* into the placeholder of the send whose controller the slot held.
C34_StoppedGoesToSlotsPlaceholder ==
  [][\A i \in DOMAIN history \cap DOMAIN history' :
       ( /\ history'[i].id = history[i].id
         /\ history'[i].text = Stopped
         /\ history[i].text # Stopped ) =>
         /\ inFlightAbortRef # NoCtrl
         /\ history[i].id = AssistantId(inFlightAbortRef)]_vars

\* abortInFlight applied to a transcript, a slot, the controllers and the
\* indicator: what it leaves of them
AbortOnce(x) ==
  [ h |-> AbortHistory(x.h, x.ref), ref |-> NoCtrl,
    sd |-> AbortSends(x.sd, x.ref), st |-> AbortStreaming(x.st, x.ref) ]

Shared == [h |-> history, ref |-> inFlightAbortRef, sd |-> sends, st |-> isStreaming]

\* with an empty slot abortInFlight returns what it found, and a second
\* abortInFlight returns what the first left
AbortIsIdempotent ==
  /\ inFlightAbortRef = NoCtrl => AbortOnce(Shared) = Shared
  /\ AbortOnce(AbortOnce(Shared)) = AbortOnce(Shared)

\* the Stop button, or a click on the thread that is selected, with an empty
\* slot: nothing of the shared state changes
EmptyStopChangesNothing ==
  (inFlightAbortRef = NoCtrl /\ (Stop \/ SwitchThread(threadId))) =>
    UNCHANGED << history, inFlightAbortRef, isStreaming >>

\* C35: abortInFlight with an empty cancellation-handle slot changes neither
\* the transcript nor the slot nor the is-streaming indicator, so stopping
\* twice is stopping once.
C35_StopOnEmptySlotIsNoOp ==
  []AbortIsIdempotent /\ [][EmptyStopChangesNothing]_vars

\* C35's case: a send was stopped, its placeholder shows the stopped
\* indicator, and the slot is empty for the next abortInFlight
C35_Witness ==
  \E s \in SendIds :
    /\ sends[s].stopped
    /\ inFlightAbortRef = NoCtrl
    /\ PlaceholderShown(history, s)
    /\ TextOf(history, AssistantId(s)) = Stopped
    /\ \E i \in DOMAIN history : history[i].role = "assistant" /\ history[i].text # Stopped

\* C36: after every push the decoder's buffer is empty if the body has
\* started and holds at most 32 KiB if it has not.
C36_BufferIsBounded ==
  IF decoder.d.startedBody
  THEN decoder.d.buf = <<>>
  ELSE ByteLen(decoder.d.buf) <= MaxMetaBytes

\* C36's case: the decoder waits for the delimiter with exactly 32 KiB in
\* its buffer, and more of the stream is to come
C36_Witness ==
  /\ ~decoder.d.startedBody
  /\ ByteLen(decoder.d.buf) = MaxMetaBytes
  /\ decoder.rest # <<>>

\* C37: when all of a stream has been pushed, the decoder's buffer holds
\* none of its bytes.
C37_NothingHeldAtStreamEnd ==
  decoder.rest = <<>> => decoder.d.buf = <<>>

====
